---- MODULE Spec2Model ----
(***************************************************************************)
(* entt::compressed_pair (src/src/entt/core/compressed_pair.hpp).          *)
(*                                                                         *)
(* A compressed_pair<First, Second> derives privately from two             *)
(* internal::compressed_pair_element bases, tagged 0 and 1.  An element    *)
(* either holds its Type as the data member `value` (primary template) or  *)
(* derives from Type (specialization enabled by is_ebco_eligible_v).       *)
(*                                                                         *)
(* The model instantiates the templates with a few concrete types.  What   *)
(* the contained types themselves do inside their own move and swap        *)
(* operations is outside the header; it enters the actions as an input.    *)
(***************************************************************************)
EXTENDS Integers, Sequences, FiniteSets, Bags, TLC

VARIABLES inst, pairs, twin, last

vars == <<inst, pairs, twin, last>>

\* Number of pair objects the model keeps alive at once.
NumPairs == 2

Pairs == 1..NumPairs

(***************************************************************************)
(* The types used as First and Second.                                     *)
(*   agg           struct { bool x; bool y; }                              *)
(*   flag          struct { bool b; }                                      *)
(*   empty         struct {}                                               *)
(*   empty2        struct {}            (unrelated to empty)               *)
(*   empty_final   struct final {}                                         *)
(*   derived_empty struct : empty {}                                       *)
(*   empty_aligned struct alignas(4) {}                                    *)
(*   empty_wide    struct : wide_b, wide_c {}, wide_b and wide_c each an   *)
(*                 empty struct derived from the empty struct wide_a       *)
(*   char_t, int_t, double_t   the scalars                                 *)
(*   holder        struct { empty e; int x; }                              *)
(*   holder_tail   struct { int x; empty e; }                              *)
(*   derived       struct : empty { int x; }                               *)
(* size/align are those of the LP64 data model.  empties lists the         *)
(* subobjects of empty class type inside an object of the type, each with  *)
(* its offset (the object itself included when its class is empty).        *)
(***************************************************************************)
TypeInfo ==
    [agg           |-> [size |-> 2, align |-> 1, is_empty |-> FALSE, is_final |-> FALSE,
                        empties |-> {}],
     flag          |-> [size |-> 1, align |-> 1, is_empty |-> FALSE, is_final |-> FALSE,
                        empties |-> {}],
     empty         |-> [size |-> 1, align |-> 1, is_empty |-> TRUE,  is_final |-> FALSE,
                        empties |-> {<<"empty", 0>>}],
     empty2        |-> [size |-> 1, align |-> 1, is_empty |-> TRUE,  is_final |-> FALSE,
                        empties |-> {<<"empty2", 0>>}],
     empty_final   |-> [size |-> 1, align |-> 1, is_empty |-> TRUE,  is_final |-> TRUE,
                        empties |-> {<<"empty_final", 0>>}],
     derived_empty |-> [size |-> 1, align |-> 1, is_empty |-> TRUE,  is_final |-> FALSE,
                        empties |-> {<<"derived_empty", 0>>, <<"empty", 0>>}],
     empty_aligned |-> [size |-> 4, align |-> 4, is_empty |-> TRUE,  is_final |-> FALSE,
                        empties |-> {<<"empty_aligned", 0>>}],
     empty_wide    |-> [size |-> 2, align |-> 1, is_empty |-> TRUE,  is_final |-> FALSE,
                        empties |-> {<<"empty_wide", 0>>, <<"wide_b", 0>>, <<"wide_a", 0>>,
                                     <<"wide_c", 1>>, <<"wide_a", 1>>}],
     char_t        |-> [size |-> 1, align |-> 1, is_empty |-> FALSE, is_final |-> FALSE,
                        empties |-> {}],
     int_t         |-> [size |-> 4, align |-> 4, is_empty |-> FALSE, is_final |-> FALSE,
                        empties |-> {}],
     double_t      |-> [size |-> 8, align |-> 8, is_empty |-> FALSE, is_final |-> FALSE,
                        empties |-> {}],
     holder        |-> [size |-> 8, align |-> 4, is_empty |-> FALSE, is_final |-> FALSE,
                        empties |-> {<<"empty", 0>>}],
     holder_tail   |-> [size |-> 8, align |-> 4, is_empty |-> FALSE, is_final |-> FALSE,
                        empties |-> {<<"empty", 4>>}],
     derived       |-> [size |-> 4, align |-> 4, is_empty |-> FALSE, is_final |-> FALSE,
                        empties |-> {<<"empty", 0>>}]]

TypeNames == DOMAIN TypeInfo

\* The types whose values the behavioural specifications construct and move.
ValueTypes == {"agg", "flag", "empty", "empty_final"}

\* The instantiations <<First, Second>> the behavioural specifications run:
\* every value type in each slot, agg beside each memberless type, flag
\* beside itself and each memberless type, the memberless types beside
\* themselves and each other.
Instantiations ==
    (ValueTypes \X ValueTypes) \ {<<"agg", "agg">>, <<"agg", "flag">>, <<"flag", "agg">>}

\* Number of data members brace-initialization of the type fills, in order.
Members == [agg |-> 2, flag |-> 1, empty |-> 0, empty_final |-> 0]

\* The values of a type: one bool per data member (an empty class has one value).
Values(T) == [1..Members[T] -> BOOLEAN]

\* The argument sequences Type{args...} accepts.
ArgSeqs(T) == UNION {[1..n -> BOOLEAN] : n \in 0..Members[T]}

\* Type{args...}: members are initialized in order, the rest value-initialized.
type_init(T, args) ==
    [k \in 1..Members[T] |-> IF k <= Len(args) THEN args[k] ELSE FALSE]

\* entt::is_ebco_eligible_v<Type> (type_traits.hpp): empty and not final.
is_ebco_eligible_v(T) == TypeInfo[T].is_empty /\ ~TypeInfo[T].is_final

(***************************************************************************)
(* internal::compressed_pair_element<Type, Tag>.                           *)
(* Primary template: the object is [value |-> v].                          *)
(* Specialization:   the object is [base |-> v], v the Type base subobject.*)
(***************************************************************************)
boxed_default(T) == [value |-> type_init(T, <<>>)]

boxed_forward(T, args) == [value |-> args]

\* std::index_sequence_for<Args...>: 0 .. sizeof...(Args) - 1.
index_sequence_for(args) == [k \in 1..Len(args) |-> k - 1]

\* Mutant of get_expansion: the pack is expanded last index first.
get_expansion_reversed(args, Index) ==
    [k \in 1..Len(Index) |-> args[Index[Len(Index) + 1 - k] + 1]]

\* std::get<Index>(args)... : the pack expansion, one element per index.
get_expansion(args, Index) == [k \in 1..Len(Index) |-> args[Index[k] + 1]]

boxed_piecewise(T, args, Index) == [value |-> type_init(T, get_expansion(args, Index))]

boxed_get(e) == e.value

merged_default(T) == [base |-> type_init(T, <<>>)]

merged_forward(T, args) == [base |-> args]

merged_piecewise(T, args, Index) == [base |-> type_init(T, get_expansion(args, Index))]

\* Mutant of merged_get: the element itself instead of its Type base.
merged_get_no_conversion(e) == e

merged_get(e) == e.base

\* Selection between the primary template and the specialization.
element_default(T) ==
    IF is_ebco_eligible_v(T) THEN merged_default(T) ELSE boxed_default(T)

element_forward(T, args) ==
    IF is_ebco_eligible_v(T) THEN merged_forward(T, args) ELSE boxed_forward(T, args)

element_piecewise(T, args, Index) ==
    IF is_ebco_eligible_v(T) THEN merged_piecewise(T, args, Index)
    ELSE boxed_piecewise(T, args, Index)

element_get(T, e) ==
    IF is_ebco_eligible_v(T) THEN merged_get(e) ELSE boxed_get(e)

\* Assignment through the Type & that get() returns.
element_put(T, e, v) ==
    IF is_ebco_eligible_v(T) THEN [e EXCEPT !.base = v] ELSE [e EXCEPT !.value = v]

(***************************************************************************)
(* compressed_pair<First, Second>, I = <<First, Second>>.                  *)
(* The object is its two base subobjects.                                  *)
(***************************************************************************)
compressed_pair_default(I) ==
    [first_base |-> element_default(I[1]), second_base |-> element_default(I[2])]

\* Mutant of compressed_pair_value: other is dropped, second_base{} instead.
compressed_pair_value_drops_other(I, arg, other) ==
    [first_base |-> element_forward(I[1], arg), second_base |-> element_default(I[2])]

compressed_pair_value(I, arg, other) ==
    [first_base |-> element_forward(I[1], arg),
     second_base |-> element_forward(I[2], other)]

compressed_pair_piecewise(I, args, other) ==
    [first_base |-> element_piecewise(I[1], args, index_sequence_for(args)),
     second_base |-> element_piecewise(I[2], other, index_sequence_for(other))]

\* Mutant of compressed_pair_copy: the second base is not copied.
compressed_pair_copy_first_only(I, other) ==
    [first_base |-> element_forward(I[1], element_get(I[1], other.first_base)),
     second_base |-> element_default(I[2])]

\* The defaulted copy operations copy base by base.
compressed_pair_copy(I, other) ==
    [first_base |-> element_forward(I[1], element_get(I[1], other.first_base)),
     second_base |-> element_forward(I[2], element_get(I[2], other.second_base))]

\* Mutant of first: the cast goes to second_base.
first_casts_to_second_base(I, p) == element_get(I[2], p.second_base)

first(I, p) == element_get(I[1], p.first_base)

second(I, p) == element_get(I[2], p.second_base)

\* p.first() = v and p.second() = v.
put_first(I, p, v) == [p EXCEPT !.first_base = element_put(I[1], @, v)]

put_second(I, p, v) == [p EXCEPT !.second_base = element_put(I[2], @, v)]

\* What a moved-from Type object holds afterwards is the Type's own business:
\* it keeps its value (a trivial move) or is reset to the value-initialized one.
MoveEffects == {"kept", "reset"}

moved_from(T, v, how) == IF how = "kept" THEN v ELSE type_init(T, <<>>)

\* The pair a move leaves behind, each slot as its Type leaves it.
compressed_pair_moved_from(I, other, how1, how2) ==
    put_second(I, put_first(I, other, moved_from(I[1], first(I, other), how1)),
               moved_from(I[2], second(I, other), how2))

\* The defaulted assignments assign base by base.
compressed_pair_assign(I, p, other) ==
    put_second(I, put_first(I, p, first(I, other)), second(I, other))

(***************************************************************************)
(* Operations on the objects ps[1..NumPairs] of one instantiation I.       *)
(***************************************************************************)
op_default(I, ps, i) == [ps EXCEPT ![i] = compressed_pair_default(I)]

op_value(I, ps, i, arg, other) == [ps EXCEPT ![i] = compressed_pair_value(I, arg, other)]

op_piecewise(I, ps, i, args, other) ==
    [ps EXCEPT ![i] = compressed_pair_piecewise(I, args, other)]

op_copy_construct(I, ps, i, j) == [ps EXCEPT ![i] = compressed_pair_copy(I, ps[j])]

\* Mutant of op_move_construct: the new object is built from the source as
\* the move left it.
op_move_construct_stale(I, ps, i, j, how1, how2) ==
    [ps EXCEPT ![i] = compressed_pair_copy(I, compressed_pair_moved_from(I, ps[j], how1, how2)),
               ![j] = compressed_pair_moved_from(I, ps[j], how1, how2)]

op_move_construct(I, ps, i, j, how1, how2) ==
    [ps EXCEPT ![i] = compressed_pair_copy(I, ps[j]),
               ![j] = compressed_pair_moved_from(I, ps[j], how1, how2)]

op_copy_assign(I, ps, i, j) == [ps EXCEPT ![i] = compressed_pair_assign(I, ps[i], ps[j])]

op_move_assign(I, ps, i, j, how1, how2) ==
    [ps EXCEPT ![i] = compressed_pair_assign(I, ps[i], ps[j]),
               ![j] = compressed_pair_moved_from(I, ps[j], how1, how2)]

op_write_first(I, ps, i, v) == [ps EXCEPT ![i] = put_first(I, ps[i], v)]

op_write_second(I, ps, i, v) == [ps EXCEPT ![i] = put_second(I, ps[i], v)]

(***************************************************************************)
(* swap(first(), other.first()) and swap(second(), other.second()): the    *)
(* generic exchange tmp = move(a); a = move(b); b = move(tmp) on the two   *)
(* references.  The exchange is the Type's own and may throw: "before" it  *)
(* changed anything, or "mid" way, after a was assigned.                   *)
(***************************************************************************)
ExchangeOutcomes == {"ok", "before", "mid"}

\* Mutant of swap_first: no temporary, b is assigned from the new a.
swap_first_no_tmp(I, ps, i, j, outcome) ==
    LET s1 == [ps EXCEPT ![i] = put_first(I, @, first(I, ps[j]))]
        s2 == [s1 EXCEPT ![j] = put_first(I, @, first(I, s1[i]))]
    IN  CASE outcome = "ok" -> s2
          [] outcome = "mid" -> s1
          [] OTHER -> ps

swap_first(I, ps, i, j, outcome) ==
    LET tmp == first(I, ps[i])
        s1 == [ps EXCEPT ![i] = put_first(I, @, first(I, ps[j]))]
        s2 == [s1 EXCEPT ![j] = put_first(I, @, tmp)]
    IN  CASE outcome = "ok" -> s2
          [] outcome = "mid" -> s1
          [] OTHER -> ps

swap_second(I, ps, i, j, outcome) ==
    LET tmp == second(I, ps[i])
        s1 == [ps EXCEPT ![i] = put_second(I, @, second(I, ps[j]))]
        s2 == [s1 EXCEPT ![j] = put_second(I, @, tmp)]
    IN  CASE outcome = "ok" -> s2
          [] outcome = "mid" -> s1
          [] OTHER -> ps

\* Mutant of member_swap: the second slots are never exchanged.
member_swap_first_only(I, ps, i, other, o1, o2) ==
    LET s1 == swap_first(I, ps, i, other, o1)
    IN  [pairs |-> s1, exc |-> IF o1 # "ok" THEN "first" ELSE "none"]

\* Mutant of member_swap: an exception of the first exchange is held back
\* until the second slots have been exchanged too.
member_swap_continues(I, ps, i, other, o1, o2) ==
    LET s1 == swap_first(I, ps, i, other, o1)
        s2 == swap_second(I, s1, i, other, IF o1 # "ok" THEN "ok" ELSE o2)
    IN  IF o1 # "ok" THEN [pairs |-> s2, exc |-> "first"]
        ELSE [pairs |-> s2, exc |-> IF o2 = "ok" THEN "none" ELSE "second"]

\* compressed_pair::swap: the objects afterwards and the exception that left it.
member_swap(I, ps, i, other, o1, o2) ==
    LET s1 == swap_first(I, ps, i, other, o1)
        s2 == swap_second(I, s1, i, other, o2)
    IN  IF o1 # "ok" THEN [pairs |-> s1, exc |-> "first"]
        ELSE [pairs |-> s2, exc |-> IF o2 = "ok" THEN "none" ELSE "second"]

\* swap(lhs, rhs): lhs.swap(rhs).
free_swap(I, ps, lhs, rhs, o1, o2) == member_swap(I, ps, lhs, rhs, o1, o2)

\* The outcomes of the two exchanges of one swap call; the second exchange
\* is not reached when the first throws.
SwapOutcomes ==
    {<<"ok", "ok">>, <<"ok", "before">>, <<"ok", "mid">>,
     <<"before", "ok">>, <<"mid", "ok">>}

(***************************************************************************)
(* Object layout.  A class is summarised by its size, its alignment, its   *)
(* data size (dsize: the size without tail padding, what a derived class   *)
(* may build on), whether it is an empty class, and the empty-class        *)
(* subobjects it contains, each <<class, tag, offset>>: tag -1 names the   *)
(* class itself, tag 0 or 1 names compressed_pair_element<class, tag>.     *)
(* Two subobjects of one class type never share an address, so a base is   *)
(* placed at the first offset where none of its empty subobjects meets     *)
(* one of the same class already there.                                    *)
(***************************************************************************)
Max(a, b) == IF a >= b THEN a ELSE b

RoundUp(n, a) == ((n + a - 1) \div a) * a

Shift(es, off) == {<<e[1], e[2], e[3] + off>> : e \in es}

type_empties(T) == {<<e[1], -1, e[2]>> : e \in TypeInfo[T].empties}

\* Primary template: one data member `value` of type Type at offset 0.
boxed_layout(T, Tag) ==
    [size |-> TypeInfo[T].size, align |-> TypeInfo[T].align, dsize |-> TypeInfo[T].size,
     is_empty |-> FALSE, empties |-> type_empties(T)]

\* Mutant of merged_layout: the Type occupies storage as a member would.
merged_layout_as_member(T, Tag) ==
    [size |-> TypeInfo[T].size, align |-> TypeInfo[T].align, dsize |-> TypeInfo[T].size,
     is_empty |-> FALSE, empties |-> type_empties(T)]

\* Specialization: no data member, one base class Type at offset 0.
merged_layout(T, Tag) ==
    [size |-> TypeInfo[T].size, align |-> TypeInfo[T].align, dsize |-> 0,
     is_empty |-> TRUE, empties |-> {<<T, Tag, 0>>} \cup type_empties(T)]

element_layout(T, Tag) ==
    IF is_ebco_eligible_v(T) THEN merged_layout(T, Tag) ELSE boxed_layout(T, Tag)

\* The offset a base class B gets in a class laid out so far as C.
base_offset(C, B) ==
    LET free(o) == Shift(B.empties, o) \cap C.empties = {}
        start == RoundUp(C.dsize, B.align)
        cand == {start + k * B.align : k \in 0..Cardinality(C.empties)}
        least == CHOOSE o \in cand : free(o) /\ \A q \in cand : free(q) => o <= q
    IN  IF B.is_empty /\ free(0) THEN 0 ELSE least

place_base(C, B) ==
    LET off == base_offset(C, B)
        dsz == IF B.is_empty THEN C.dsize ELSE off + B.dsize
    IN  [size |-> Max(C.size, IF B.is_empty THEN off + B.size ELSE dsz),
         align |-> Max(C.align, B.align), dsize |-> dsz,
         empties |-> C.empties \cup Shift(B.empties, off)]

\* sizeof(compressed_pair<First, Second>): the two bases in declaration order.
sizeof_compressed_pair(I) ==
    LET C0 == [size |-> 0, align |-> 1, dsize |-> 0, empties |-> {}]
        C1 == place_base(C0, element_layout(I[1], 0))
        C2 == place_base(C1, element_layout(I[2], 1))
    IN  RoundUp(Max(Max(C2.size, C2.dsize), 1), C2.align)

sizeof_type(T) == TypeInfo[T].size

(***************************************************************************)
(* The state.  inst is the instantiation <<First, Second>>; pairs are its  *)
(* objects; last names the operation that ran last and the exception, if   *)
(* any, that left it.  twin holds the objects of the instantiation whose   *)
(* slot types have the same values and the other storage strategy where    *)
(* one exists; only LayoutSpec drives it.                                  *)
(***************************************************************************)
Flip(T) ==
    CASE T = "empty" -> "empty_final"
      [] T = "empty_final" -> "empty"
      [] OTHER -> T

Twin(I) == <<Flip(I[1]), Flip(I[2])>>

Init ==
    /\ inst \in Instantiations
    /\ pairs = [i \in Pairs |-> compressed_pair_default(inst)]
    /\ twin = [i \in Pairs |-> compressed_pair_default(Twin(inst))]
    /\ last = [op |-> "init", exc |-> "none"]

Step(op, exc, ps, tw) ==
    /\ pairs' = ps
    /\ twin' = tw
    /\ last' = [op |-> op, exc |-> exc]
    /\ UNCHANGED inst

DefaultConstruct(i) == Step("default", "none", op_default(inst, pairs, i), twin)

ValueConstruct(i, arg, other) ==
    Step("value", "none", op_value(inst, pairs, i, arg, other), twin)

PiecewiseConstruct(i, args, other) ==
    Step("piecewise", "none", op_piecewise(inst, pairs, i, args, other), twin)

CopyConstruct(i, j) ==
    /\ i # j
    /\ Step("copy", "none", op_copy_construct(inst, pairs, i, j), twin)

MoveConstruct(i, j, how1, how2) ==
    /\ i # j
    /\ Step("move", "none", op_move_construct(inst, pairs, i, j, how1, how2), twin)

CopyAssign(i, j) == Step("copy_assign", "none", op_copy_assign(inst, pairs, i, j), twin)

\* An rvalue argument is the caller's promise that it does not alias *this.
MoveAssign(i, j, how1, how2) ==
    /\ i # j
    /\ Step("move_assign", "none", op_move_assign(inst, pairs, i, j, how1, how2), twin)

WriteFirst(i, v) == Step("write_first", "none", op_write_first(inst, pairs, i, v), twin)

WriteSecond(i, v) == Step("write_second", "none", op_write_second(inst, pairs, i, v), twin)

\* The const overloads of first() and second().
Read(i) == Step("read", "none", pairs, twin)

Swap(i, j, o) ==
    LET r == member_swap(inst, pairs, i, j, o[1], o[2])
    IN  Step("swap", r.exc, r.pairs, twin)

FreeSwap(i, j, o) ==
    LET r == free_swap(inst, pairs, i, j, o[1], o[2])
    IN  Step("free_swap", r.exc, r.pairs, twin)

Next ==
    \/ \E i \in Pairs : DefaultConstruct(i)
    \/ \E i \in Pairs, arg \in Values(inst[1]), other \in Values(inst[2]) :
          ValueConstruct(i, arg, other)
    \/ \E i \in Pairs, args \in ArgSeqs(inst[1]), other \in ArgSeqs(inst[2]) :
          PiecewiseConstruct(i, args, other)
    \/ \E i, j \in Pairs : CopyConstruct(i, j)
    \/ \E i, j \in Pairs, how1, how2 \in MoveEffects : MoveConstruct(i, j, how1, how2)
    \/ \E i, j \in Pairs : CopyAssign(i, j)
    \/ \E i, j \in Pairs, how1, how2 \in MoveEffects : MoveAssign(i, j, how1, how2)
    \/ \E i \in Pairs, v \in Values(inst[1]) : WriteFirst(i, v)
    \/ \E i \in Pairs, v \in Values(inst[2]) : WriteSecond(i, v)
    \/ \E i \in Pairs : Read(i)
    \/ \E i, j \in Pairs, o \in SwapOutcomes : Swap(i, j, o)
    \/ \E i, j \in Pairs, o \in SwapOutcomes : FreeSwap(i, j, o)

Spec == Init /\ [][Next]_vars

(***************************************************************************)
(* LayoutSpec: the same calls made on the objects of inst and on those of  *)
(* Twin(inst).                                                             *)
(***************************************************************************)
LDefaultConstruct(i) ==
    Step("default", "none", op_default(inst, pairs, i), op_default(Twin(inst), twin, i))

LValueConstruct(i, arg, other) ==
    Step("value", "none", op_value(inst, pairs, i, arg, other),
         op_value(Twin(inst), twin, i, arg, other))

LPiecewiseConstruct(i, args, other) ==
    Step("piecewise", "none", op_piecewise(inst, pairs, i, args, other),
         op_piecewise(Twin(inst), twin, i, args, other))

LCopyConstruct(i, j) ==
    /\ i # j
    /\ Step("copy", "none", op_copy_construct(inst, pairs, i, j),
            op_copy_construct(Twin(inst), twin, i, j))

LMoveConstruct(i, j, how1, how2) ==
    /\ i # j
    /\ Step("move", "none", op_move_construct(inst, pairs, i, j, how1, how2),
            op_move_construct(Twin(inst), twin, i, j, how1, how2))

LCopyAssign(i, j) ==
    Step("copy_assign", "none", op_copy_assign(inst, pairs, i, j),
         op_copy_assign(Twin(inst), twin, i, j))

LMoveAssign(i, j, how1, how2) ==
    /\ i # j
    /\ Step("move_assign", "none", op_move_assign(inst, pairs, i, j, how1, how2),
            op_move_assign(Twin(inst), twin, i, j, how1, how2))

LWriteFirst(i, v) ==
    Step("write_first", "none", op_write_first(inst, pairs, i, v),
         op_write_first(Twin(inst), twin, i, v))

LWriteSecond(i, v) ==
    Step("write_second", "none", op_write_second(inst, pairs, i, v),
         op_write_second(Twin(inst), twin, i, v))

LSwap(i, j, o) ==
    LET r == member_swap(inst, pairs, i, j, o[1], o[2])
        t == member_swap(Twin(inst), twin, i, j, o[1], o[2])
    IN  Step("swap", r.exc, r.pairs, t.pairs)

LayoutNext ==
    \/ \E i \in Pairs : LDefaultConstruct(i)
    \/ \E i \in Pairs, arg \in Values(inst[1]), other \in Values(inst[2]) :
          LValueConstruct(i, arg, other)
    \/ \E i \in Pairs, args \in ArgSeqs(inst[1]), other \in ArgSeqs(inst[2]) :
          LPiecewiseConstruct(i, args, other)
    \/ \E i, j \in Pairs : LCopyConstruct(i, j)
    \/ \E i, j \in Pairs, how1, how2 \in MoveEffects : LMoveConstruct(i, j, how1, how2)
    \/ \E i, j \in Pairs : LCopyAssign(i, j)
    \/ \E i, j \in Pairs, how1, how2 \in MoveEffects : LMoveAssign(i, j, how1, how2)
    \/ \E i \in Pairs, v \in Values(inst[1]) : LWriteFirst(i, v)
    \/ \E i \in Pairs, v \in Values(inst[2]) : LWriteSecond(i, v)
    \/ \E i, j \in Pairs, o \in SwapOutcomes : LSwap(i, j, o)

LayoutSpec == Init /\ [][LayoutNext]_vars

(***************************************************************************)
(* SizeSpec: sizeof(compressed_pair<First, Second>) for every pair of the  *)
(* types of TypeInfo.  sizeof is a constant expression; no object exists.  *)
(***************************************************************************)
SizeInit ==
    /\ inst \in TypeNames \X TypeNames
    /\ pairs = <<>>
    /\ twin = <<>>
    /\ last = [op |-> "init", exc |-> "none", size |-> 0]

Sizeof ==
    /\ last.op = "init"
    /\ last' = [op |-> "sizeof", exc |-> "none", size |-> sizeof_compressed_pair(inst)]
    /\ UNCHANGED <<inst, pairs, twin>>

SizeNext == Sizeof

SizeSpec == SizeInit /\ [][SizeNext]_vars

(***************************************************************************)
(* Properties.  Those of Spec are stated of every call that can be made in *)
(* a reachable state: ps names the objects as the call leaves them.        *)
(***************************************************************************)
\* What first() and second() return for object i of ps.
Obs(I, ps, i) == <<first(I, ps[i]), second(I, ps[i])>>

\* Every object but those of S reads in ps what it reads now.
OthersKept(ps, S) == \A k \in Pairs \ S : Obs(inst, ps, k) = Obs(inst, pairs, k)

\* A call changes what is read from the objects it is applied to and from
\* no other: a constructor, an assignment or a write from its target, a
\* move also from its source, a swap from its two operands.
OnlyNamedChange ==
    /\ \A i \in Pairs : OthersKept(op_default(inst, pairs, i), {i})
    /\ \A i \in Pairs, a \in Values(inst[1]), b \in Values(inst[2]) :
          OthersKept(op_value(inst, pairs, i, a, b), {i})
    /\ \A i \in Pairs, xs \in ArgSeqs(inst[1]), ys \in ArgSeqs(inst[2]) :
          OthersKept(op_piecewise(inst, pairs, i, xs, ys), {i})
    /\ \A i, j \in Pairs :
          /\ i # j => OthersKept(op_copy_construct(inst, pairs, i, j), {i})
          /\ OthersKept(op_copy_assign(inst, pairs, i, j), {i})
    /\ \A i, j \in Pairs, h1, h2 \in MoveEffects :
          i # j =>
             /\ OthersKept(op_move_construct(inst, pairs, i, j, h1, h2), {i, j})
             /\ OthersKept(op_move_assign(inst, pairs, i, j, h1, h2), {i, j})
    /\ \A i \in Pairs, v \in Values(inst[1]) :
          OthersKept(op_write_first(inst, pairs, i, v), {i})
    /\ \A i \in Pairs, v \in Values(inst[2]) :
          OthersKept(op_write_second(inst, pairs, i, v), {i})
    /\ \A i, j \in Pairs, o \in SwapOutcomes :
          /\ OthersKept(member_swap(inst, pairs, i, j, o[1], o[2]).pairs, {i, j})
          /\ OthersKept(free_swap(inst, pairs, i, j, o[1], o[2]).pairs, {i, j})

\* C1: a pair constructed from the values (a, b) returns a from first() and
\* b from second() right after construction, and what first()/second() of a
\* pair return is changed only by a call that constructs, writes, assigns,
\* moves from or swaps that very pair.
C1_ValueConstruction ==
    /\ \A i \in Pairs, a \in Values(inst[1]), b \in Values(inst[2]) :
          LET ps == op_value(inst, pairs, i, a, b)
          IN  first(inst, ps[i]) = a /\ second(inst, ps[i]) = b
    /\ OnlyNamedChange

C1_Witness ==
    /\ last.op = "value"
    /\ inst = <<"flag", "flag">>
    /\ \A i \in Pairs : Obs(inst, pairs, i) = << <<FALSE>>, <<TRUE>> >>

\* C2: after a swap of objects i and j that completes, i reads what j read
\* before and j what i read before; the free function swap(i, j) leaves
\* what the member i.swap(j) leaves, the objects and the exception.
C2_SwapCorrect ==
    \A i, j \in Pairs :
       /\ LET r == member_swap(inst, pairs, i, j, "ok", "ok")
          IN  /\ r.exc = "none"
              /\ Obs(inst, r.pairs, i) = Obs(inst, pairs, j)
              /\ Obs(inst, r.pairs, j) = Obs(inst, pairs, i)
       /\ \A o \in SwapOutcomes :
             free_swap(inst, pairs, i, j, o[1], o[2])
                = member_swap(inst, pairs, i, j, o[1], o[2])

C2_Witness ==
    /\ last = [op |-> "swap", exc |-> "none"]
    /\ inst = <<"empty_final", "agg">>
    /\ Obs(inst, pairs, 1) = << <<>>, <<FALSE, TRUE>> >>
    /\ Obs(inst, pairs, 2) = << <<>>, <<TRUE, FALSE>> >>

\* C3: copy construction of i from j and copy assignment of j to i make i
\* read what j reads and leave j as it was; a write to one pair through
\* first() or second() changes no other pair.
C3_CopyRoundTrip ==
    /\ \A i, j \in Pairs :
          /\ i # j =>
                LET ps == op_copy_construct(inst, pairs, i, j)
                IN  Obs(inst, ps, i) = Obs(inst, pairs, j) /\ ps[j] = pairs[j]
          /\ LET ps == op_copy_assign(inst, pairs, i, j)
             IN  /\ Obs(inst, ps, i) = Obs(inst, pairs, j)
                 /\ Obs(inst, ps, j) = Obs(inst, pairs, j)
    /\ \A i \in Pairs, v \in Values(inst[1]) :
          \A k \in Pairs \ {i} : op_write_first(inst, pairs, i, v)[k] = pairs[k]
    /\ \A i \in Pairs, v \in Values(inst[2]) :
          \A k \in Pairs \ {i} : op_write_second(inst, pairs, i, v)[k] = pairs[k]

C3_Witness ==
    /\ last.op \in {"copy", "copy_assign"}
    /\ inst = <<"agg", "empty">>
    /\ \A i \in Pairs : Obs(inst, pairs, i) = << <<FALSE, TRUE>>, <<>> >>

\* The objects of an instantiation: both slots hold a value of their type.
PairObjects(I) == {compressed_pair_value(I, a, b) : a \in Values(I[1]), b \in Values(I[2])}

\* C4: move construction of i from j and move assignment of j to i (i and j
\* distinct objects) leave i reading what j read before, slot by slot, and
\* leave j an object of the instantiation, whatever its slots then hold.
C4_MoveRoundTrip ==
    \A i, j \in Pairs, h1, h2 \in MoveEffects :
       i # j =>
          /\ LET ps == op_move_construct(inst, pairs, i, j, h1, h2)
             IN  Obs(inst, ps, i) = Obs(inst, pairs, j) /\ ps[j] \in PairObjects(inst)
          /\ LET ps == op_move_assign(inst, pairs, i, j, h1, h2)
             IN  Obs(inst, ps, i) = Obs(inst, pairs, j) /\ ps[j] \in PairObjects(inst)

C4_Witness ==
    /\ last.op \in {"move", "move_assign"}
    /\ inst = <<"flag", "flag">>
    /\ \E i, j \in Pairs :
          /\ Obs(inst, pairs, i) = << <<TRUE>>, <<TRUE>> >>
          /\ Obs(inst, pairs, j) = << <<FALSE>>, <<TRUE>> >>

\* C5: piecewise construction from the argument sequences xs and ys leaves
\* first() equal to First{xs...} and second() equal to Second{ys...}: each
\* sequence reaches its own slot whole and in order, the empty one included.
C5_Piecewise ==
    \A i \in Pairs, xs \in ArgSeqs(inst[1]), ys \in ArgSeqs(inst[2]) :
       LET ps == op_piecewise(inst, pairs, i, xs, ys)
       IN  /\ first(inst, ps[i]) = type_init(inst[1], xs)
           /\ second(inst, ps[i]) = type_init(inst[2], ys)

C5_Witness ==
    /\ last.op = "piecewise"
    /\ inst = <<"agg", "empty">>
    /\ \A i \in Pairs : Obs(inst, pairs, i) = << <<FALSE, TRUE>>, <<>> >>

NoSharedAddress(T, U) == TypeInfo[T].empties \cap TypeInfo[U].empties = {}

\* sizeof(U) with the padding the pair's alignment requires.
PaddedSize(T, U) == RoundUp(sizeof_type(U), Max(TypeInfo[T].align, TypeInfo[U].align))

\* One slot type is merged and the other is not: <<merged, other>>.
MergedAndOther(I) ==
    IF is_ebco_eligible_v(I[1]) /\ ~is_ebco_eligible_v(I[2]) THEN {<<I[1], I[2]>>}
    ELSE IF is_ebco_eligible_v(I[2]) /\ ~is_ebco_eligible_v(I[1]) THEN {<<I[2], I[1]>>}
    ELSE {}

\* C7 as stated: with T footprint-free and U not, compressed_pair<T, U> and
\* compressed_pair<U, T> have the size of U, alignment padding aside.
C7_SizeAsStated ==
    last.op = "sizeof" =>
       \A m \in MergedAndOther(inst) : last.size = PaddedSize(m[1], m[2])

\* C7 amended: the same, for the T and U where T is no larger than U and no
\* subobject of U has both the class and the offset of a subobject of T.
C7_Size ==
    last.op = "sizeof" =>
       \A m \in MergedAndOther(inst) :
          (sizeof_type(m[1]) <= sizeof_type(m[2]) /\ NoSharedAddress(m[1], m[2])) =>
             last.size = PaddedSize(m[1], m[2])

C7_Witness ==
    /\ last.op = "sizeof"
    /\ inst = <<"int_t", "empty">>
    /\ last.size = sizeof_type("int_t")

\* C8: when the exchange of the first slots throws, the exception leaves
\* swap and the second slots of all pairs are as before; when the first
\* exchange completes and the second throws, the exception leaves swap and
\* the first slots stay exchanged.
C8_SwapFailure ==
    \A i, j \in Pairs, o \in SwapOutcomes :
       LET r == member_swap(inst, pairs, i, j, o[1], o[2])
       IN  /\ o[1] # "ok" =>
                 /\ r.exc = "first"
                 /\ \A k \in Pairs : second(inst, r.pairs[k]) = second(inst, pairs[k])
           /\ (o[1] = "ok" /\ o[2] # "ok") =>
                 /\ r.exc = "second"
                 /\ first(inst, r.pairs[i]) = first(inst, pairs[j])
                 /\ first(inst, r.pairs[j]) = first(inst, pairs[i])
           /\ o = <<"ok", "ok">> => r.exc = "none"

C8_Witness ==
    /\ last = [op |-> "swap", exc |-> "second"]
    /\ inst = <<"flag", "flag">>
    /\ Obs(inst, pairs, 1) = << <<TRUE>>, <<FALSE>> >>
    /\ Obs(inst, pairs, 2) = << <<FALSE>>, <<FALSE>> >>

\* C9: a write through first() makes first() return the written value and
\* leaves second() of the pair as it was; a write through second() makes
\* second() return the written value and leaves first() as it was.
C9_SlotIndependence ==
    /\ \A i \in Pairs, v \in Values(inst[1]) :
          LET ps == op_write_first(inst, pairs, i, v)
          IN  /\ first(inst, ps[i]) = v
              /\ second(inst, ps[i]) = second(inst, pairs[i])
    /\ \A i \in Pairs, v \in Values(inst[2]) :
          LET ps == op_write_second(inst, pairs, i, v)
          IN  /\ second(inst, ps[i]) = v
              /\ first(inst, ps[i]) = first(inst, pairs[i])

C9_Witness ==
    /\ last.op = "write_first"
    /\ inst = <<"flag", "flag">>
    /\ \A i \in Pairs : Obs(inst, pairs, i) = << <<TRUE>>, <<FALSE>> >>

\* How many objects of ps hold v in the first slot, and in the second.
FirstCount(ps, v) == Cardinality({i \in Pairs : first(inst, ps[i]) = v})

SecondCount(ps, v) == Cardinality({i \in Pairs : second(inst, ps[i]) = v})

====
